---- MODULE Spec2Model ----
(***************************************************************************)
(* The Socket.IO live-streaming hub of EventSnap (src/app.py, lines        *)
(* 894-1084): room membership, the audio statistics and header cache, the  *)
(* persisted is_live flag, and the handlers that relay frames, audio       *)
(* chunks, PCM chunks and reactions.                                       *)
(*                                                                         *)
(* A Python value is a record [type, val]; a Python dict is a function     *)
(* from its keys (strings) to values.  Every handler is an operator from   *)
(* the current state and its inputs (the sending connection and the        *)
(* message) to an outcome: the new shared state, the message it emitted    *)
(* and the value it returned.  stream_audio and join_event are small       *)
(* machines of steps, run to completion in Spec and interleaved, one       *)
(* step at a time, in SpecConc.  Timestamps (started_at, timestamp) are    *)
(* left out: no handler branches on them.                                  *)
(***************************************************************************)
EXTENDS Integers, Sequences, FiniteSets, TLC

\* ------------------------------------------------------------------------
\* Bounds and input sets
\* ------------------------------------------------------------------------
MaxChunks == 2

Conns == {"A", "B", "C"}

EventKeys == {"7", "8"}

DbIds == {7}

\* ------------------------------------------------------------------------
\* Python values
\* ------------------------------------------------------------------------
PyStrVal(s) == [type |-> "str", val |-> s]

PyIntVal(s) == [type |-> "int", val |-> s]

PyTrue == [type |-> "bool", val |-> "True"]

PyNone == [type |-> "NoneType", val |-> "None"]

EmptyDict == [k \in {} |-> PyNone]

\* str(x)
PyStr(v) == v.val

\* int(s) for a decimal string of one digit
PyInt(s) == CHOOSE n \in 0..9 : ToString(n) = s

\* bool(x)
Truthy(v) ==
    CASE v.type = "str" -> v.val # ""
      [] v.type = "int" -> v.val # "0"
      [] v.type = "bool" -> v.val = "True"
      [] OTHER -> FALSE

\* d.get(k, default)
DictGet(d, k, default) == IF k \in DOMAIN d THEN d[k] ELSE default

\* isinstance(x, str)
IsStr(v) == v.type = "str"

\* len(x) is defined for strings only
HasLen(v) == v.type = "str"

PyLen(v) == Len(v.val)

\* s.startswith(p)
StartsWith(s, p) == Len(s) >= Len(p) /\ SubSeq(s, 1, Len(p)) = p

\* del d[k]
DictDel(d, k) == [x \in DOMAIN d \ {k} |-> d[x]]

\* d[k] = v
DictPut(d, k, v) == [x \in DOMAIN d \cup {k} |-> IF x = k THEN v ELSE d[x]]

\* ------------------------------------------------------------------------
\* State
\* ------------------------------------------------------------------------
VARIABLES
    rooms,          \* Flask-SocketIO room membership: event key -> set of sids
    audio_stats,    \* dict: event key -> dict of counters
    audio_headers,  \* dict: event key -> cached first chunk
    is_live,        \* persisted Event.is_live, by database id
    online,         \* the sids of the connected clients
    proc,           \* handlers in flight, by connection (SpecConc only)
    session,        \* history (Spec, SpecEvents): the first chunk relayed since
                    \* the last start_stream or stop_stream, "" when none
    left,           \* history: connection's last membership operation was leave
    dropped,        \* history: the rooms a connection was in when it disconnected
    tally,          \* history (Spec), by event, since its counters
                    \* were last deleted: the stream_audio chunks answered
                    \* with success, the sum of their normalized lengths and
                    \* the chunk that brought chunks_sent to 1
    batch           \* history (SpecConc): stream_audio handlers begun since the
                    \* event last had no counters and no handler in flight;
                    \* -1 once a stop_stream has run while one was in flight

vars == <<rooms, audio_stats, audio_headers, is_live, online, proc, session, left,
          dropped, tally, batch>>


\* ------------------------------------------------------------------------
\* Outcomes of a handler
\* ------------------------------------------------------------------------
NoEmit == [name |-> "", room |-> "", data |-> EmptyDict, to |-> {}]

\* the handler returned None: no acknowledgement payload
RetNone == [kind |-> "None", status |-> "", message |-> ""]

\* the handler raised: nothing is returned to the sender
RetRaised(msg) == [kind |-> "raised", status |-> "", message |-> msg]

RetSuccess == [kind |-> "dict", status |-> "success", message |-> ""]

RetError(msg) == [kind |-> "dict", status |-> "error", message |-> msg]

\* the shared state a handler starts from
World ==
    [rooms |-> rooms, stats |-> audio_stats, headers |-> audio_headers,
     live |-> is_live, emit |-> NoEmit, ret |-> RetNone]

\* the connections a room name addresses: every sid is a room of its own
RoomMembers(r, room) ==
    IF room \in Conns THEN {room}
    ELSE IF room \in DOMAIN r THEN r[room] ELSE {}

\* flask_socketio.emit(name, data, room=room, include_self=include_self)
FlaskEmit(w, sid, name, data, room, include_self) ==
    [w EXCEPT !.emit =
        [name |-> name, room |-> room, data |-> data,
         to |-> RoomMembers(w.rooms, room) \ (IF include_self THEN {} ELSE {sid})]]

\* ------------------------------------------------------------------------
\* Locals of a handler in flight
\* ------------------------------------------------------------------------
Idle ==
    [pc |-> "idle", op |-> "", event_id |-> "", audio |-> PyNone,
     mime |-> PyNone, tmp |-> 0, det |-> FALSE, hdr |-> EmptyDict]

Begin(op) == [Idle EXCEPT !.pc = "start", !.op = op]

Done(w, l, ret) == [w |-> [w EXCEPT !.ret = ret], l |-> [l EXCEPT !.pc = "done"]]

Goto(w, l, pc) == [w |-> w, l |-> [l EXCEPT !.pc = pc]]

\* ------------------------------------------------------------------------
\* join_event / leave_event
\* ------------------------------------------------------------------------
\* join_room(room)
JoinRoom(r, sid, room) == [r EXCEPT ![room] = @ \cup {sid}]

\* a leave_room that forgets to remove the connection
LeaveRoomKeeps(r, sid, room) == r

\* leave_room(room)

LeaveRoom(r, sid, room) == [r EXCEPT ![room] = @ \ {sid}]

\* a header replay addressed to the event room
ReplayRoomEvent(sid, event_id) == event_id

\* line 917: room=request.sid
ReplayRoom(sid, event_id) == sid

\* one step of on_join
on_join_step(w, l, sid, data) ==
    CASE l.pc = "start" ->
            IF "event_id" \notin DOMAIN data
            THEN Done(w, l, RetRaised("'event_id'"))
            ELSE LET event_id == PyStr(data["event_id"]) IN
                 [w |-> [w EXCEPT !.rooms = JoinRoom(w.rooms, sid, event_id)],
                  l |-> [l EXCEPT !.pc = "hdr_check", !.event_id = event_id]]
      [] l.pc = "hdr_check" ->
            IF l.event_id \in DOMAIN w.headers
            THEN Goto(w, l, "hdr_load")
            ELSE Done(w, l, RetNone)
      [] l.pc = "hdr_load" ->
            IF l.event_id \in DOMAIN w.headers
            THEN [w |-> w,
                  l |-> [l EXCEPT !.pc = "emit", !.hdr = w.headers[l.event_id]]]
            ELSE Done(w, l, RetRaised("'" \o l.event_id \o "'"))
      [] l.pc = "emit" ->
            Done(FlaskEmit(w, sid, "new_audio", l.hdr,
                           ReplayRoom(sid, l.event_id), TRUE), l, RetNone)

\* a leave_event that ends the stream of the room
on_leave_stops(w, sid, data) ==
    IF "event_id" \notin DOMAIN data
    THEN [w EXCEPT !.ret = RetRaised("'event_id'")]
    ELSE [w EXCEPT !.rooms = LeaveRoom(w.rooms, sid, PyStr(data["event_id"])),
                   !.live = [id \in DOMAIN @ |->
                                @[id] /\ ToString(id) # PyStr(data["event_id"])]]

on_leave(w, sid, data) ==
    IF "event_id" \notin DOMAIN data
    THEN [w EXCEPT !.ret = RetRaised("'event_id'")]
    ELSE [w EXCEPT !.rooms = LeaveRoom(w.rooms, sid, PyStr(data["event_id"]))]

\* ------------------------------------------------------------------------
\* connect / disconnect
\* ------------------------------------------------------------------------
\* lines 902-904: prints
handle_connect(w, sid) == w

\* lines 1082-1084: prints
handle_disconnect(w, sid) == w

\* a server that keeps the rooms of a connection that is gone
KeepRooms(r, sid) == r

\* the Socket.IO server drops a disconnected sid from every room, after the
\* disconnect handler has returned
LeaveAllRooms(r, sid) == [e \in DOMAIN r |-> r[e] \ {sid}]

\* ------------------------------------------------------------------------
\* start_stream / stop_stream
\* ------------------------------------------------------------------------
\* db.session.get(Event, id) finds a record
HasEvent(live, id) == id \in DOMAIN live

\* a start_stream that broadcasts before it writes the flag
start_stream_emits_first(w, sid, data) ==
    IF "event_id" \notin DOMAIN data
    THEN <<[w EXCEPT !.ret = RetRaised("'event_id'")]>>
    ELSE LET event_id == PyStr(data["event_id"])
             w1 == [w EXCEPT !.headers = DictDel(@, event_id)]
         IN  IF HasEvent(w1.live, PyInt(event_id))
             THEN LET w2 == FlaskEmit(w1, sid, "stream_started",
                                      [event_id |-> PyStrVal(event_id)],
                                      event_id, TRUE)
                  IN  <<w1, w2, [w2 EXCEPT !.live[PyInt(event_id)] = TRUE]>>
             ELSE <<w1>>

\* the shared state after each statement of handle_start_stream: the header
\* is dropped (931-932), the flag written and committed (938-939), the
\* broadcast sent (943)
start_stream_steps(w, sid, data) ==
    IF "event_id" \notin DOMAIN data
    THEN <<[w EXCEPT !.ret = RetRaised("'event_id'")]>>
    ELSE LET event_id == PyStr(data["event_id"])
             w1 == [w EXCEPT !.headers = DictDel(@, event_id)]
         IN  IF HasEvent(w1.live, PyInt(event_id))
             THEN LET w2 == [w1 EXCEPT !.live[PyInt(event_id)] = TRUE]
                  IN  <<w1, w2,
                        FlaskEmit(w2, sid, "stream_started",
                                  [event_id |-> PyStrVal(event_id)],
                                  event_id, TRUE)>>
             ELSE <<w1>>

handle_start_stream(w, sid, data) ==
    LET t == start_stream_steps(w, sid, data) IN t[Len(t)]

\* a stop_stream that drops the header only
StopCleanupHeaderOnly(w, event_id) == [w EXCEPT !.headers = DictDel(@, event_id)]

\* a stop_stream that empties both dictionaries
StopCleanupAll(w, event_id) == [w EXCEPT !.headers = EmptyDict, !.stats = EmptyDict]

\* lines 1055-1067: drop the header, then the statistics
StopCleanup(w, event_id) ==
    [w EXCEPT !.headers = DictDel(@, event_id), !.stats = DictDel(@, event_id)]

\* a stop_stream that forgets the persisted flag
stop_stream_keeps_flag(w, sid, data) ==
    IF "event_id" \notin DOMAIN data
    THEN [w EXCEPT !.ret = RetRaised("'event_id'")]
    ELSE LET event_id == PyStr(data["event_id"])
             w1 == StopCleanup(w, event_id)
         IN  IF HasEvent(w1.live, PyInt(event_id))
             THEN FlaskEmit(w1, sid, "stream_stopped",
                            [event_id |-> PyStrVal(event_id)], event_id, TRUE)
             ELSE w1

handle_stop_stream(w, sid, data) ==
    IF "event_id" \notin DOMAIN data
    THEN [w EXCEPT !.ret = RetRaised("'event_id'")]
    ELSE LET event_id == PyStr(data["event_id"])
             w1 == StopCleanup(w, event_id)
         IN  IF HasEvent(w1.live, PyInt(event_id))
             THEN FlaskEmit([w1 EXCEPT !.live[PyInt(event_id)] = FALSE], sid,
                            "stream_stopped",
                            [event_id |-> PyStrVal(event_id)], event_id, TRUE)
             ELSE w1

\* ------------------------------------------------------------------------
\* stream_frame / send_reaction / stream_audio_pcm
\* ------------------------------------------------------------------------
\* a relay that echoes to its sender
RelayEchoes == TRUE

\* include_self=False of the relays
RelayIncludeSelf == FALSE

\* broadcast=True of the reaction: include_self keeps its default
ReactionIncludeSelf == TRUE

handle_stream_frame(w, sid, data) ==
    IF "event_id" \notin DOMAIN data
    THEN [w EXCEPT !.ret = RetRaised("'event_id'")]
    ELSE IF "image" \notin DOMAIN data
    THEN [w EXCEPT !.ret = RetRaised("'image'")]
    ELSE FlaskEmit(w, sid, "new_frame", [image |-> data["image"]],
                   PyStr(data["event_id"]), RelayIncludeSelf)

handle_reaction(w, sid, data) ==
    IF "event_id" \notin DOMAIN data
    THEN [w EXCEPT !.ret = RetRaised("'event_id'")]
    ELSE IF "emoji" \notin DOMAIN data
    THEN [w EXCEPT !.ret = RetRaised("'emoji'")]
    ELSE FlaskEmit(w, sid, "new_reaction", [emoji |-> data["emoji"]],
                   PyStr(data["event_id"]), ReactionIncludeSelf)

handle_stream_audio_pcm(w, sid, data) ==
    IF DOMAIN data = {} \/ "event_id" \notin DOMAIN data
    THEN w
    ELSE LET event_id == PyStr(data["event_id"])
             w1 == IF event_id \notin DOMAIN w.stats
                   THEN [w EXCEPT !.stats = DictPut(@, event_id, [chunks |-> 0])]
                   ELSE w
         IN  IF "chunks" \notin DOMAIN w1.stats[event_id]
             THEN w1    \* KeyError, caught and printed at lines 1048-1049
             ELSE FlaskEmit([w1 EXCEPT !.stats[event_id]["chunks"] = @ + 1], sid,
                            "new_audio_pcm", data, event_id, RelayIncludeSelf)

\* ------------------------------------------------------------------------
\* stream_audio
\* ------------------------------------------------------------------------
DefaultMime == PyStrVal("audio/webm")

\* a normalization that wraps every string payload
NormalizeAlways(audio_data, mime_type) ==
    IF IsStr(audio_data)
    THEN PyStrVal("data:" \o PyStr(mime_type) \o ";base64," \o audio_data.val)
    ELSE audio_data

\* lines 971-973: wrap a raw string payload as a data URI
Normalize(audio_data, mime_type) ==
    IF IsStr(audio_data) /\ ~StartsWith(audio_data.val, "data:")
    THEN PyStrVal("data:" \o PyStr(mime_type) \o ";base64," \o audio_data.val)
    ELSE audio_data

\* lines 977-981
NewStats == [chunks_sent |-> 0, total_bytes |-> 0]

\* a header test that passes for every chunk
IsFirstChunkOrLater(chunks_sent) == chunks_sent >= 1

\* a header test that counts from zero
IsFirstChunkFromZero(chunks_sent) == chunks_sent = 0

\* line 987: the chunk that is cached as the header
IsFirstChunk(chunks_sent) == chunks_sent = 1

\* lines 989-995
HeaderOf(l) ==
    [audio |-> l.audio, mimeType |-> l.mime,
     event_id |-> PyStrVal(l.event_id), is_header |-> PyTrue]

\* lines 1003-1008
RelayOf(l) ==
    [audio |-> l.audio, mimeType |-> l.mime, event_id |-> PyStrVal(l.event_id)]

\* the except clause of lines 1012-1014
Caught(w, l, msg) == Done(w, l, RetError(msg))

KeyErr(k) == "'" \o k \o "'"

\* d = audio_stats[event_id]; d[k] can be read
CanRead(w, l, k) == l.event_id \in DOMAIN w.stats /\ k \in DOMAIN w.stats[l.event_id]

ReadErr(w, l, k) == IF l.event_id \in DOMAIN w.stats THEN KeyErr(k) ELSE KeyErr(l.event_id)

\* d[k] = l.tmp, on the dict d the statement loaded: d is no longer the
\* entry of audio_stats when the entry was replaced or deleted meanwhile
Store(w, l, k) ==
    IF l.det \/ l.event_id \notin DOMAIN w.stats
    THEN w
    ELSE [w EXCEPT !.stats[l.event_id][k] = l.tmp]

\* one step of handle_stream_audio
handle_stream_audio_step(w, l, sid, data) ==
    CASE l.pc = "start" ->
            IF DOMAIN data = {} \/ "event_id" \notin DOMAIN data
            THEN Done(w, l, RetError("Missing event_id"))
            ELSE LET event_id == PyStr(data["event_id"])
                     audio_data == DictGet(data, "audio", PyNone)
                     mime_type == DictGet(data, "mimeType", DefaultMime)
                 IN  IF ~Truthy(audio_data)
                     THEN Done(w, l, RetError("No audio data"))
                     ELSE [w |-> w,
                           l |-> [l EXCEPT !.event_id = event_id,
                                           !.audio = Normalize(audio_data, mime_type),
                                           !.mime = mime_type,
                                           !.pc = IF event_id \notin DOMAIN w.stats
                                                  THEN "create" ELSE "rd_chunks"]]
      [] l.pc = "create" ->
            Goto([w EXCEPT !.stats = DictPut(@, l.event_id, NewStats)], l, "rd_chunks")
      [] l.pc = "rd_chunks" ->
            IF CanRead(w, l, "chunks_sent")
            THEN [w |-> w,
                  l |-> [l EXCEPT !.pc = "wr_chunks", !.det = FALSE,
                                  !.tmp = w.stats[l.event_id]["chunks_sent"] + 1]]
            ELSE Caught(w, l, ReadErr(w, l, "chunks_sent"))
      [] l.pc = "wr_chunks" ->
            Goto(Store(w, l, "chunks_sent"), l, "rd_bytes")
      [] l.pc = "rd_bytes" ->
            IF ~CanRead(w, l, "total_bytes")
            THEN Caught(w, l, ReadErr(w, l, "total_bytes"))
            ELSE IF ~HasLen(l.audio)
            THEN Caught(w, l, "object of type '" \o l.audio.type \o "' has no len()")
            ELSE [w |-> w,
                  l |-> [l EXCEPT !.pc = "wr_bytes", !.det = FALSE,
                                  !.tmp = w.stats[l.event_id]["total_bytes"]
                                          + PyLen(l.audio)]]
      [] l.pc = "wr_bytes" ->
            Goto(Store(w, l, "total_bytes"), l, "hdr_check")
      [] l.pc = "hdr_check" ->
            IF CanRead(w, l, "chunks_sent")
            THEN Goto(w, l, IF IsFirstChunk(w.stats[l.event_id]["chunks_sent"])
                            THEN "hdr_store" ELSE "count")
            ELSE Caught(w, l, ReadErr(w, l, "chunks_sent"))
      [] l.pc = "hdr_store" ->
            Goto([w EXCEPT !.headers = DictPut(@, l.event_id, HeaderOf(l))], l, "count")
      [] l.pc = "count" ->
            IF CanRead(w, l, "chunks_sent")
            THEN Goto(w, l, "emit")
            ELSE Caught(w, l, ReadErr(w, l, "chunks_sent"))
      [] l.pc = "emit" ->
            Done(FlaskEmit(w, sid, "new_audio", RelayOf(l), l.event_id,
                           RelayIncludeSelf), l, RetSuccess)

\* ------------------------------------------------------------------------
\* GET /debug/rooms/<event_id>
\* ------------------------------------------------------------------------
\* line 898: the dictionary is created empty and no statement of the program
\* stores into it
active_streams == EmptyDict

\* lines 1016-1025: the JSON body of the response
debug_rooms(w, event_id) ==
    [room |-> event_id,
     clients |-> <<>>,
     audio_stats |-> DictGet(w.stats, event_id, EmptyDict),
     is_streaming |-> event_id \in DOMAIN active_streams]

\* a query that inserts the entry it looks up
debug_rooms_inserts(w, event_id) ==
    [w EXCEPT !.stats = IF event_id \in DOMAIN @ THEN @
                        ELSE DictPut(@, event_id, EmptyDict)]

\* the shared state after the query: audio_stats.get and the membership
\* test of lines 1022-1023 read the dictionaries and store nothing
debug_rooms_state(w, event_id) == w

\* ------------------------------------------------------------------------
\* A handler run from its first statement to its return
\* ------------------------------------------------------------------------
StepOf(w, l, sid, data) ==
    IF l.op = "join_event"
    THEN on_join_step(w, l, sid, data)
    ELSE handle_stream_audio_step(w, l, sid, data)

RECURSIVE RunFrom(_, _, _, _)
RunFrom(w, l, sid, data) ==
    IF l.pc = "done" THEN w
    ELSE LET n == StepOf(w, l, sid, data) IN RunFrom(n.w, n.l, sid, data)

on_join(w, sid, data) == RunFrom(w, Begin("join_event"), sid, data)

handle_stream_audio(w, sid, data) == RunFrom(w, Begin("stream_audio"), sid, data)

\* ------------------------------------------------------------------------
\* Inbound messages
\* ------------------------------------------------------------------------
\* a key that may be absent
Opt(k, vals) == {EmptyDict} \cup {[x \in {k} |-> v] : v \in vals}

\* the event ids clients send are numbers
IdVals(keys) == {PyIntVal(k) : k \in keys}

IdMsgs(keys) == Opt("event_id", IdVals(keys))

\* chunks: raw payloads with and without a declared mime type, a payload
\* that is a data URI already, an empty payload, a payload that is a number
AudioBodies ==
    {EmptyDict,
     [audio |-> PyStrVal("")],
     [audio |-> PyStrVal("AAAA")],
     [audio |-> PyStrVal("BBBB"), mimeType |-> PyStrVal("audio/mpeg")],
     [audio |-> PyStrVal("data:audio/webm;base64,CCCC")],
     [audio |-> PyIntVal("5")]}

AudioMsgs(keys) ==
    {[audio |-> PyStrVal("AAAA")], EmptyDict}
        \cup {a @@ b : a \in IdMsgs(keys) \ {EmptyDict}, b \in AudioBodies}

PcmMsgs(keys) == {a @@ b : a \in IdMsgs(keys), b \in Opt("audio", {PyStrVal("pcm")})}

FrameMsgs(keys) == {a @@ b : a \in IdMsgs(keys), b \in Opt("image", {PyStrVal("jpeg")})}

ReactionMsgs(keys) == {a @@ b : a \in IdMsgs(keys), b \in Opt("emoji", {PyStrVal("clap")})}

\* the chunks of the interleaved runs: an event id and a string payload
ConcAudioMsgs(keys) ==
    {[event_id |-> e, audio |-> a] :
        e \in IdVals(keys), a \in {PyStrVal("AAAA"), PyStrVal("BBBB")}}

\* the event key a message addresses ("" when it carries none)
KeyOf(data) == IF "event_id" \in DOMAIN data THEN PyStr(data["event_id"]) ELSE ""

\* the chunk counter of an event, whichever handler created it
Counted(stats, e) ==
    IF e \notin DOMAIN stats THEN 0
    ELSE IF "chunks_sent" \in DOMAIN stats[e] THEN stats[e]["chunks_sent"]
    ELSE stats[e]["chunks"]

\* nothing counted yet
NoTally == [n |-> 0, bytes |-> 0, first |-> ""]

\* ------------------------------------------------------------------------
\* Initial state: the module-level dictionaries of lines 898-900, no
\* connection in any room, Event.is_live at its default (models.py:43)
\* ------------------------------------------------------------------------
Init ==
    /\ rooms = [e \in EventKeys |-> {}]
    /\ audio_stats = EmptyDict
    /\ audio_headers = EmptyDict
    /\ is_live = [id \in DbIds |-> FALSE]
    /\ online = Conns
    /\ proc = [c \in Conns |-> Idle]
    /\ session = [e \in EventKeys |-> ""]
    /\ left = [c \in Conns |-> {}]
    /\ dropped = [c \in Conns |-> {}]
    /\ tally = [e \in EventKeys |-> NoTally]
    /\ batch = [e \in EventKeys |-> 0]

\* the shared state after a handler
Apply(w) ==
    /\ rooms' = w.rooms
    /\ audio_stats' = w.stats
    /\ audio_headers' = w.headers
    /\ is_live' = w.live

\* session: the first chunk relayed since the last start or stop
SessionAfterAudio(w, e) ==
    IF w.emit.name = "new_audio" /\ session[e] = ""
    THEN [session EXCEPT ![e] = w.emit.data["audio"].val]
    ELSE session

SessionReset(e) == IF e \in EventKeys THEN [session EXCEPT ![e] = ""] ELSE session

\* the payload of a chunk as lines 958-973 leave it
NormalizedOf(data) ==
    Normalize(DictGet(data, "audio", PyNone), DictGet(data, "mimeType", DefaultMime))

\* tally: after a stream_audio with message data and outcome w
TallyAfterAudio(w, data) ==
    LET e == KeyOf(data)
        t == tally[e]
        accepted == w.ret.status = "success"
        first == /\ Counted(audio_stats, e) = 0
                 /\ e \in DOMAIN w.stats
                 /\ "chunks_sent" \in DOMAIN w.stats[e]
                 /\ w.stats[e]["chunks_sent"] = 1
    IN  [tally EXCEPT ![e] =
            [n |-> IF accepted THEN t.n + 1 ELSE t.n,
             bytes |-> IF accepted THEN t.bytes + Len(NormalizedOf(data).val)
                       ELSE t.bytes,
             first |-> IF first THEN NormalizedOf(data).val ELSE t.first]]

TallyReset(e) == IF e \in EventKeys THEN [tally EXCEPT ![e] = NoTally] ELSE tally

\* ------------------------------------------------------------------------
\* Actions: a connection sends a message and its handler runs to completion
\* ------------------------------------------------------------------------
JoinEvent(c, data) ==
    /\ Apply(on_join(World, c, data))
    /\ left' = IF KeyOf(data) = "" THEN left
               ELSE [left EXCEPT ![c] = @ \ {KeyOf(data)}]
    /\ UNCHANGED <<online, dropped, tally, proc, session, batch>>

LeaveEvent(c, data) ==
    /\ Apply(on_leave(World, c, data))
    /\ left' = IF KeyOf(data) = "" THEN left
               ELSE [left EXCEPT ![c] = @ \cup {KeyOf(data)}]
    /\ UNCHANGED <<online, dropped, tally, proc, session, batch>>

StartStream(c, data) ==
    /\ Apply(handle_start_stream(World, c, data))
    /\ session' = SessionReset(KeyOf(data))
    /\ UNCHANGED <<online, dropped, tally, proc, left, batch>>

StopStream(c, data) ==
    /\ Apply(handle_stop_stream(World, c, data))
    /\ session' = SessionReset(KeyOf(data))
    /\ tally' = TallyReset(KeyOf(data))
    /\ UNCHANGED <<online, dropped, proc, left, batch>>

StreamFrame(c, data) ==
    /\ Apply(handle_stream_frame(World, c, data))
    /\ UNCHANGED <<online, dropped, tally, proc, session, left, batch>>

SendReaction(c, data) ==
    /\ Apply(handle_reaction(World, c, data))
    /\ UNCHANGED <<online, dropped, tally, proc, session, left, batch>>

StreamAudio(c, data, H) ==
    /\ Counted(audio_stats, KeyOf(data)) < MaxChunks
    /\ LET w == handle_stream_audio(World, c, data) IN
        /\ Apply(w)
        /\ session' = IF KeyOf(data) = "" THEN session
                      ELSE SessionAfterAudio(w, KeyOf(data))
        /\ tally' = IF KeyOf(data) \in H THEN TallyAfterAudio(w, data) ELSE tally
    /\ UNCHANGED <<online, dropped, proc, left, batch>>

StreamAudioPcm(c, data) ==
    /\ Counted(audio_stats, KeyOf(data)) < MaxChunks
    /\ Apply(handle_stream_audio_pcm(World, c, data))
    /\ UNCHANGED <<online, dropped, tally, proc, session, left, batch>>

\* a client connects: its sid is new to the server
Connect(c) ==
    /\ c \notin online
    /\ Apply(handle_connect(World, c))
    /\ online' = online \cup {c}
    /\ left' = [left EXCEPT ![c] = {}]
    /\ dropped' = [dropped EXCEPT ![c] = {}]
    /\ UNCHANGED <<tally, proc, session, batch>>

\* a client disconnects, or its connection is lost
Disconnect(c) ==
    /\ c \in online
    /\ LET w == handle_disconnect(World, c) IN
         Apply([w EXCEPT !.rooms = LeaveAllRooms(w.rooms, c)])
    /\ online' = online \ {c}
    /\ dropped' = [dropped EXCEPT ![c] = {e \in EventKeys : c \in rooms[e]}]
    /\ UNCHANGED <<tally, proc, session, left, batch>>

\* the diagnostic query reads and changes nothing
DebugRooms(e) ==
    /\ debug_rooms(World, e).room = e
    /\ Apply(debug_rooms_state(World, e))
    /\ UNCHANGED <<online, dropped, tally, proc, session, left, batch>>

\* the handlers, for senders S, joining connections J and event keys K;
\* H are the events whose chunks the history tallies
NextOf(S, J, K, H) ==
    \/ \E c \in J \cap online, data \in IdMsgs(K) : JoinEvent(c, data)
    \/ \E c \in J \cap online, data \in IdMsgs(K) : LeaveEvent(c, data)
    \/ \E c \in S \cap online, data \in IdMsgs(K) : StartStream(c, data)
    \/ \E c \in S \cap online, data \in IdMsgs(K) : StopStream(c, data)
    \/ \E c \in S \cap online, data \in FrameMsgs(K) : StreamFrame(c, data)
    \/ \E c \in S \cap online, data \in ReactionMsgs(K) : SendReaction(c, data)
    \/ \E c \in S \cap online, data \in AudioMsgs(K) : StreamAudio(c, data, H)
    \/ \E c \in S \cap online, data \in PcmMsgs(K) : StreamAudioPcm(c, data)

\* three connections that come and go, on one event
Next ==
    \/ NextOf(Conns, Conns, {"7"}, {"7"})
    \/ \E c \in Conns : Connect(c)
    \/ \E c \in Conns : Disconnect(c)
    \/ \E e \in {"7"} : DebugRooms(e)

Spec == Init /\ [][Next]_vars

\* two connections, one of them a viewer, on two events, one of them
\* without an Event record
NextEvents == NextOf({"A", "B"}, {"A"}, EventKeys, {})

SpecEvents == Init /\ [][NextEvents]_vars

\* ------------------------------------------------------------------------
\* Interleaved handlers: the server runs every message in a thread of its
\* own, and a thread can be preempted between any two statements
\* ------------------------------------------------------------------------
Publishers == {"A", "B"}

Viewers == {"C"}

InFlight(e) == {c \in Conns : proc[c].pc # "idle" /\ proc[c].event_id = e}

\* the dict a pending store holds is no longer the entry of audio_stats
Detach(p, c, e) ==
    [d \in Conns |->
        IF d # c /\ p[d].event_id = e /\ p[d].pc \in {"wr_chunks", "wr_bytes"}
        THEN [p[d] EXCEPT !.det = TRUE] ELSE p[d]]

\* the thread of c after a step: a thread that returned is gone
After(c, n) ==
    LET p == [proc EXCEPT ![c] = IF n.l.pc = "done" THEN Idle ELSE n.l]
    IN  IF proc[c].pc = "create" THEN Detach(p, c, proc[c].event_id) ELSE p

BeginAudio(c, data) ==
    /\ proc[c].pc = "idle"
    /\ Counted(audio_stats, KeyOf(data)) < MaxChunks
    /\ LET n == handle_stream_audio_step(World, Begin("stream_audio"), c, data) IN
        /\ Apply(n.w)
        /\ proc' = After(c, n)
    /\ batch' = IF batch[KeyOf(data)] >= 0
                THEN [batch EXCEPT ![KeyOf(data)] = @ + 1] ELSE batch
    /\ UNCHANGED <<online, dropped, tally, session, left>>

BeginJoin(c, data) ==
    /\ proc[c].pc = "idle"
    /\ LET n == on_join_step(World, Begin("join_event"), c, data) IN
        /\ Apply(n.w)
        /\ proc' = After(c, n)
    /\ left' = [left EXCEPT ![c] = @ \ {KeyOf(data)}]
    /\ UNCHANGED <<online, dropped, tally, session, batch>>

\* the next statement of the handler running for c
StepThread(c) ==
    /\ proc[c].pc # "idle"
    /\ LET n == StepOf(World, proc[c], c, EmptyDict) IN
        /\ Apply(n.w)
        /\ proc' = After(c, n)
    /\ UNCHANGED <<online, dropped, tally, session, left, batch>>

StopNow(c, data) ==
    /\ proc[c].pc = "idle"
    /\ Apply(handle_stop_stream(World, c, data))
    /\ proc' = Detach(proc, c, KeyOf(data))
    /\ batch' = [batch EXCEPT ![KeyOf(data)] =
                    IF InFlight(KeyOf(data)) = {} THEN 0 ELSE -1]
    /\ UNCHANGED <<online, dropped, tally, session, left>>

NextConc ==
    \/ \E c \in Publishers, data \in ConcAudioMsgs({"7"}) : BeginAudio(c, data)
    \/ \E c \in Viewers, data \in IdMsgs({"7"}) \ {EmptyDict} : BeginJoin(c, data)
    \/ \E c \in Conns : StepThread(c)
    \/ \E c \in Viewers, data \in IdMsgs({"7"}) \ {EmptyDict} : StopNow(c, data)

SpecConc == Init /\ [][NextConc]_vars

\* ------------------------------------------------------------------------
\* Properties
\* ------------------------------------------------------------------------
\* a well-formed message for event key e
IdMsg(e) == [event_id |-> PyIntVal(e)]

FrameMsg(e) == [event_id |-> PyIntVal(e), image |-> PyStrVal("jpeg")]

ReactionMsg(e) == [event_id |-> PyIntVal(e), emoji |-> PyStrVal("clap")]

PcmMsg(e) == [event_id |-> PyIntVal(e), audio |-> PyStrVal("pcm")]

ChunkMsg(e) == [event_id |-> PyIntVal(e), audio |-> PyStrVal("AAAA")]

\* P(op, sender, message, outcome) of every message any connection can send
\* in the current state
ForAllOutcomes(P(_, _, _, _)) ==
    \A c \in Conns :
        /\ \A d \in IdMsgs(EventKeys) :
            /\ P("join_event", c, d, on_join(World, c, d))
            /\ P("leave_event", c, d, on_leave(World, c, d))
            /\ P("start_stream", c, d, handle_start_stream(World, c, d))
            /\ P("stop_stream", c, d, handle_stop_stream(World, c, d))
        /\ \A d \in FrameMsgs(EventKeys) :
            P("stream_frame", c, d, handle_stream_frame(World, c, d))
        /\ \A d \in ReactionMsgs(EventKeys) :
            P("send_reaction", c, d, handle_reaction(World, c, d))
        /\ \A d \in AudioMsgs(EventKeys) :
            P("stream_audio", c, d, handle_stream_audio(World, c, d))
        /\ \A d \in PcmMsgs(EventKeys) :
            P("stream_audio_pcm", c, d, handle_stream_audio_pcm(World, c, d))

\* the handler left the shared state alone
SameState(w) ==
    /\ w.rooms = rooms
    /\ w.stats = audio_stats
    /\ w.headers = audio_headers
    /\ w.live = is_live

\* C1: the header cache of E is non-empty if and only if an audio chunk has
\* been relayed for E since the most recent start_stream(E) or
\* stop_stream(E) (or ever, when there was none).
C1_HeaderIffRelayed ==
    \A e \in EventKeys : (e \in DOMAIN audio_headers) <=> (session[e] # "")

\* C2: a connection that joins E after at least one chunk was relayed in
\* the current session is sent, to itself alone, a header replay carrying
\* the normalized payload of the first chunk of the session, and is a
\* member of the room for the chunks that follow.
C2_JoinReplaysFirstChunk ==
    \A c \in Conns, e \in EventKeys :
        session[e] # "" =>
            LET w == on_join(World, c, IdMsg(e)) IN
                /\ w.emit.name = "new_audio"
                /\ w.emit.to = {c}
                /\ w.emit.data["audio"].val = session[e]
                /\ c \in w.rooms[e]

\* C3: when start_stream(E) completes, E has no header cache entry and no
\* counters, so that the next chunk for E is counted as chunk 1.
C3_StartClearsCounters ==
    \A c \in Conns, e \in EventKeys :
        LET w == handle_start_stream(World, c, IdMsg(e))
            n == handle_stream_audio(w, c, ChunkMsg(e))
        IN  /\ e \notin DOMAIN w.headers
            /\ e \notin DOMAIN w.stats
            /\ Counted(n.stats, e) = 1

\* C4: when the stream_audio handlers begun on an event without counters
\* have all returned, chunks_sent of the event is the number of handlers.
C4_NoLostIncrement ==
    \A e \in EventKeys :
        (InFlight(e) = {} /\ batch[e] >= 1) =>
            /\ e \in DOMAIN audio_stats
            /\ Counted(audio_stats, e) = batch[e]

\* C5 as stated: a reaction reaches the connection that sent it and a
\* frame, audio chunk or PCM chunk never does, whether or not the sender
\* has joined the room.
C5_ReactionAlwaysEchoed ==
    \A c \in Conns, e \in EventKeys :
        /\ c \in handle_reaction(World, c, ReactionMsg(e)).emit.to
        /\ c \notin handle_stream_frame(World, c, FrameMsg(e)).emit.to
        /\ c \notin handle_stream_audio(World, c, ChunkMsg(e)).emit.to
        /\ c \notin handle_stream_audio_pcm(World, c, PcmMsg(e)).emit.to

\* C5 amended: a reaction for E reaches the connection that sent it exactly
\* when that connection is a member of room E; a frame, audio chunk or PCM
\* chunk never reaches its sender, member or not.
C5_ReactionEchoedToMember ==
    \A c \in Conns, e \in EventKeys :
        /\ c \in handle_reaction(World, c, ReactionMsg(e)).emit.to <=> c \in rooms[e]
        /\ c \notin handle_stream_frame(World, c, FrameMsg(e)).emit.to
        /\ c \notin handle_stream_audio(World, c, ChunkMsg(e)).emit.to
        /\ c \notin handle_stream_audio_pcm(World, c, PcmMsg(e)).emit.to

\* a member of room 7 reacts and relays while another member listens
C5_Witness ==
    \E c \in Conns :
        /\ c \in rooms["7"]
        /\ rooms["7"] # {c}
        /\ handle_reaction(World, c, ReactionMsg("7")).emit.to = rooms["7"]
        /\ handle_stream_frame(World, c, FrameMsg("7")).emit.to = rooms["7"] \ {c}
        /\ handle_stream_audio(World, c, ChunkMsg("7")).emit.to = rooms["7"] \ {c}
        /\ handle_stream_audio_pcm(World, c, PcmMsg("7")).emit.name = "new_audio_pcm"

\* C6: a connection whose most recent membership operation on room E is
\* leave_event(E) receives nothing that any handler broadcasts to room E.
C6_NoDeliveryAfterLeave ==
    ForAllOutcomes(LAMBDA op, c, d, w :
        \A x \in Conns : \A e \in left[x] :
            w.emit.room = e => x \notin w.emit.to)

\* a connection has left room 7 and a broadcast to room 7 reaches the others
C6_Witness ==
    \E x \in Conns, c \in Conns :
        /\ "7" \in left[x]
        /\ handle_reaction(World, c, ReactionMsg("7")).emit.to # {}
        /\ handle_start_stream(World, c, IdMsg("7")).emit.to # {}

\* the message lacks its event id or the payload its handler relays
Malformed(op, d) ==
    \/ "event_id" \notin DOMAIN d
    \/ op = "stream_frame" /\ "image" \notin DOMAIN d
    \/ op = "send_reaction" /\ "emoji" \notin DOMAIN d
    \/ op = "stream_audio" /\ "audio" \notin DOMAIN d

\* C7: a message of any type that lacks its event id or its payload gets a
\* structured error response, is not broadcast and changes no state.
C7_MalformedGetsError ==
    ForAllOutcomes(LAMBDA op, c, d, w :
        Malformed(op, d) =>
            /\ w.ret.kind = "dict" /\ w.ret.status = "error"
            /\ w.emit = NoEmit
            /\ SameState(w))

\* C8: a stream_audio that ends with an error acknowledgement has changed
\* neither the counters nor the header cache and has broadcast nothing.
C8_ErrorLeavesState ==
    \A c \in Conns, d \in AudioMsgs(EventKeys) :
        LET w == handle_stream_audio(World, c, d) IN
            w.ret.status = "error" => SameState(w) /\ w.emit = NoEmit

\* C9: start_stream and stop_stream for an id without an Event record
\* change nothing, broadcast nothing and return no error.
C9_UnknownEventNoOp ==
    \A c \in Conns, e \in EventKeys :
        ~HasEvent(is_live, PyInt(e)) =>
            \A w \in {handle_start_stream(World, c, IdMsg(e)),
                      handle_stop_stream(World, c, IdMsg(e))} :
                /\ SameState(w)
                /\ w.emit = NoEmit
                /\ w.ret = RetNone

\* C10: start_stream(E) immediately followed by stop_stream(E) leaves no
\* entry for E in the counters and none in the header cache.
C10_StartStopLeavesNothing ==
    \A c \in Conns, b \in Conns, e \in EventKeys :
        LET w == handle_stop_stream(handle_start_stream(World, c, IdMsg(e)),
                                    b, IdMsg(e))
        IN  e \notin DOMAIN w.stats /\ e \notin DOMAIN w.headers

\* both events have counters, and the one with an Event record a header too,
\* which the start leaves behind and the stop removes
C10_Witness ==
    /\ "8" \in DOMAIN audio_stats
    /\ "7" \in DOMAIN audio_headers
    /\ "7" \in DOMAIN handle_start_stream(World, "A", IdMsg("7")).stats
    /\ LET w == handle_stop_stream(handle_start_stream(World, "A", IdMsg("7")),
                                   "B", IdMsg("7"))
       IN  "7" \notin DOMAIN w.stats /\ w.emit.name = "stream_stopped"

\* the shared state a handler leaves to the next one
Settled(w) == [w EXCEPT !.emit = NoEmit, !.ret = RetNone]

\* the hub has relayed nothing yet and A alone is in room 7
FreshWithA ==
    /\ rooms = [e \in EventKeys |-> IF e = "7" THEN {"A"} ELSE {}]
    /\ audio_stats = EmptyDict
    /\ audio_headers = EmptyDict
    /\ {"B", "C"} \subseteq online

\* B's first chunk, C's join, B's second chunk
ScenarioFirst ==
    handle_stream_audio(World, "B",
        [event_id |-> PyIntVal("7"), audio |-> PyStrVal("AAAA"),
         mimeType |-> PyStrVal("audio/webm")])

ScenarioJoin == on_join(Settled(ScenarioFirst), "C", IdMsg("7"))

ScenarioSecond ==
    handle_stream_audio(Settled(ScenarioJoin), "B",
        [event_id |-> PyIntVal("7"), audio |-> PyStrVal("BBBB")])

\* C11: from a fresh hub with A in room 7, B's chunk AAAA (audio/webm) makes
\* chunks_sent of 7 equal to 1 and the header cache of 7 hold the normalized
\* AAAA with audio/webm; C's join is then answered with the header replay,
\* the first message C gets; B's chunk BBBB is then relayed once to A and
\* once to C, and B has received nothing.
C11_Scenario ==
    FreshWithA =>
        /\ Counted(ScenarioFirst.stats, "7") = 1
        /\ "7" \in DOMAIN ScenarioFirst.headers
        /\ ScenarioFirst.headers["7"]["audio"] = PyStrVal("data:audio/webm;base64,AAAA")
        /\ ScenarioFirst.headers["7"]["mimeType"] = PyStrVal("audio/webm")
        /\ ScenarioFirst.emit.to = {"A"}
        /\ ScenarioJoin.emit.name = "new_audio"
        /\ ScenarioJoin.emit.to = {"C"}
        /\ ScenarioJoin.emit.data = ScenarioFirst.headers["7"]
        /\ ScenarioJoin.emit.data["is_header"] = PyTrue
        /\ ScenarioSecond.emit.name = "new_audio"
        /\ ScenarioSecond.emit.data["audio"] = PyStrVal("data:audio/webm;base64,BBBB")
        /\ ScenarioSecond.emit.to = {"A", "C"}
        /\ ScenarioSecond.ret = RetSuccess

\* A has joined the fresh hub and the scenario runs to its second relay
C11_Witness ==
    /\ FreshWithA
    /\ ScenarioSecond.emit.to = {"A", "C"}
    /\ Counted(ScenarioSecond.stats, "7") = 2

\* C12: in every reachable state, stream_audio chunks counted or not, a
\* stream_audio_pcm message with an event id raises the chunk count of the
\* event by one, is relayed unchanged to every member of the room but the
\* sender, and leaves the header cache alone.
C12_PcmCountedAndRelayed ==
    \A c \in Conns, d \in PcmMsgs(EventKeys) :
        "event_id" \in DOMAIN d =>
            LET w == handle_stream_audio_pcm(World, c, d) IN
                /\ Counted(w.stats, KeyOf(d)) = Counted(audio_stats, KeyOf(d)) + 1
                /\ w.emit.name = "new_audio_pcm"
                /\ w.emit.data = d
                /\ w.emit.to = rooms[KeyOf(d)] \ {c}
                /\ w.headers = audio_headers

\* the message carries an event id and a non-empty audio payload
ValidChunk(d) ==
    /\ "event_id" \in DOMAIN d
    /\ "audio" \in DOMAIN d
    /\ IsStr(d["audio"])
    /\ d["audio"].val # ""

\* C13: every stream_audio message is answered with one acknowledgement,
\* and in every reachable state, PCM chunks counted or not, the
\* acknowledgement is success and the chunk is relayed to the room exactly
\* when the message carries an event id and a non-empty audio payload.
C13_AckSuccessIffValid ==
    \A c \in Conns, d \in AudioMsgs(EventKeys) :
        LET w == handle_stream_audio(World, c, d) IN
            /\ w.ret.kind = "dict"
            /\ w.ret.status = "success" <=> ValidChunk(d)
            /\ (w.emit.name = "new_audio" /\ w.emit.room = KeyOf(d)) <=> ValidChunk(d)

\* the persisted flag of the event is set
FlaggedLive(e) == HasEvent(is_live, PyInt(e)) /\ is_live[PyInt(e)]

\* C14: the diagnostic query for E reports is_streaming = true exactly when
\* E is flagged live, and reports the current counters of E.
C14_IsStreamingIffLive ==
    \A e \in EventKeys :
        LET r == debug_rooms(World, e) IN
            /\ r.is_streaming <=> FlaggedLive(e)
            /\ r.audio_stats = DictGet(audio_stats, e, EmptyDict)

\* C15: a connection that has disconnected is a member of no room, and no
\* message a connected client causes afterwards is delivered to it,
\* whatever rooms it was in.
C15_DisconnectedGetsNothing ==
    \A x \in Conns \ online :
        /\ \A e \in EventKeys : x \notin rooms[e]
        /\ ForAllOutcomes(LAMBDA op, c, d, w : c \in online => x \notin w.emit.to)

\* a member of room 7 has disconnected and a broadcast to room 7 reaches
\* the members that remain
C15_Witness ==
    \E x \in Conns \ online, c \in online :
        /\ "7" \in dropped[x]
        /\ handle_reaction(World, c, ReactionMsg("7")).emit.to # {}
        /\ handle_stop_stream(World, c, IdMsg("7")).emit.to # {}

\* the statements of a handler that sent something
Emitting(t) ==
    {i \in 1..Len(t) : t[i].emit # (IF i = 1 THEN NoEmit ELSE t[i - 1].emit)}

\* C16: start_stream(E) for an event with a persisted record sets is_live
\* of E, broadcasts stream_started to room E only after the flag is
\* written, and every member of room E gets one stream_started per start.
C16_StartedAfterFlag ==
    \A c \in Conns, e \in EventKeys :
        HasEvent(is_live, PyInt(e)) =>
            LET t == start_stream_steps(World, c, IdMsg(e))
                w == handle_start_stream(World, c, IdMsg(e))
            IN  /\ w.live[PyInt(e)]
                /\ \A i \in Emitting(t) : t[i].live[PyInt(e)]
                /\ Cardinality(Emitting(t)) = 1
                /\ w.emit.name = "stream_started"
                /\ w.emit.room = e
                /\ w.emit.to = rooms[e]

\* an event that is not live, with two members or more in its room, is
\* started by one of them
C16_Witness ==
    \E c \in rooms["7"] :
        /\ rooms["7"] # {c}
        /\ ~is_live[7]
        /\ handle_start_stream(World, c, IdMsg("7")).emit.to = rooms["7"]
        /\ handle_start_stream(World, c, IdMsg("7")).live[7]

\* C17: stop_stream(E) for an event with a persisted record removes the
\* header and the counters of E, clears is_live of E and broadcasts
\* stream_stopped to room E, whether E was live or not.
C17_StopClearsAll ==
    \A c \in Conns, e \in EventKeys :
        HasEvent(is_live, PyInt(e)) =>
            LET w == handle_stop_stream(World, c, IdMsg(e)) IN
                /\ e \notin DOMAIN w.headers
                /\ e \notin DOMAIN w.stats
                /\ ~w.live[PyInt(e)]
                /\ w.emit.name = "stream_stopped"
                /\ w.emit.room = e
                /\ w.emit.to = rooms[e]

\* a live event with a header, counters and members is stopped
C17_Witness ==
    /\ is_live[7]
    /\ "7" \in DOMAIN audio_headers
    /\ "7" \in DOMAIN audio_stats
    /\ rooms["7"] # {}
    /\ LET w == handle_stop_stream(World, "A", IdMsg("7")) IN
        /\ ~w.live[7]
        /\ "7" \notin DOMAIN w.stats
        /\ w.emit.to = rooms["7"]

\* C18: once is_live of E is set it stays set until a stop_stream(E) is
\* processed: no join, leave, connect, disconnect, relay, reaction or
\* diagnostic query clears it.
C18_LiveUntilStop ==
    [][\A id \in DbIds :
          (is_live[id] /\ ~is_live'[id]) =>
              \E c \in Conns, d \in IdMsgs(EventKeys) :
                  KeyOf(d) = ToString(id) /\ StopStream(c, d)]_vars

\* the event is live, a chunk was relayed since it was started, a connection
\* has left the room and another has disconnected
C18_Witness ==
    /\ is_live[7]
    /\ session["7"] # ""
    /\ \E x \in online : "7" \in left[x]
    /\ \E x \in Conns \ online : "7" \in dropped[x]

\* C19: a connection is a member of at most one event room.
C19_AtMostOneRoom ==
    \A c \in Conns : Cardinality({e \in EventKeys : c \in rooms[e]}) <= 1

\* C20: join_event(E) by a connection sends the header replay to that
\* connection alone when E has a header cache entry, and sends nothing to
\* anyone when it has none.
C20_ReplayToJoinerOnly ==
    \A c \in Conns, e \in EventKeys :
        LET w == on_join(World, c, IdMsg(e)) IN
            IF e \in DOMAIN audio_headers
            THEN /\ w.emit.name = "new_audio"
                 /\ w.emit.data = audio_headers[e]
                 /\ w.emit.to = {c}
            ELSE w.emit = NoEmit

\* a connection joins a room that has a header and other members
C20_Witness ==
    \E c \in Conns :
        /\ c \notin rooms["7"]
        /\ rooms["7"] # {}
        /\ "7" \in DOMAIN audio_headers
        /\ on_join(World, c, IdMsg("7")).emit.to = {c}

\* C21: a stream_audio chunk answered with success raises chunks_sent of its
\* event by 1 and total_bytes by the length of the normalized payload, so
\* that the counters of an event are the number and the summed normalized
\* lengths of the chunks accepted since the counters were last reset.
C21_CountersMatchAccepted ==
    /\ \A c \in Conns, d \in AudioMsgs(EventKeys) :
        LET w == handle_stream_audio(World, c, d)
            e == KeyOf(d)
        IN  w.ret.status = "success" =>
                /\ w.stats[e]["chunks_sent"] = Counted(audio_stats, e) + 1
                /\ w.stats[e]["total_bytes"] =
                       (IF e \in DOMAIN audio_stats
                        THEN audio_stats[e]["total_bytes"] ELSE 0)
                       + Len(w.emit.data["audio"].val)
    /\ \A e \in EventKeys :
        (e \in DOMAIN audio_stats /\ "chunks_sent" \in DOMAIN audio_stats[e]) =>
            /\ audio_stats[e]["chunks_sent"] = tally[e].n
            /\ audio_stats[e]["total_bytes"] = tally[e].bytes

\* payloads with and without the prefix, and near misses of it
Payloads ==
    {"", "AAAA", "data:audio/webm;base64,CCCC", "data:", "dataAAAA", "DATA:AAAA"}

Mimes == {"audio/webm", "audio/mpeg", ""}

\* the normalized form of payload p declared as m
Wrapped(p, m) ==
    IF StartsWith(p, "data:") THEN p ELSE "data:" \o m \o ";base64," \o p

\* C22: normalization wraps a string payload without the prefix 'data:' as
\* 'data:<mime>;base64,<payload>', with audio/webm when no mime type is
\* declared, leaves a payload with the prefix unchanged and is idempotent;
\* the relayed chunk and the cached header carry the normalized payload.
C22_NormalizeWrapsOnce ==
    /\ \A p \in Payloads, m \in Mimes :
        LET n == Normalize(PyStrVal(p), PyStrVal(m)) IN
            /\ n = PyStrVal(Wrapped(p, m))
            /\ Normalize(n, PyStrVal(m)) = n
    /\ \A c \in Conns, d \in AudioMsgs(EventKeys) :
        ValidChunk(d) =>
            LET w == handle_stream_audio(World, c, d)
                e == KeyOf(d)
                m == IF "mimeType" \in DOMAIN d THEN d["mimeType"].val
                     ELSE "audio/webm"
            IN  /\ w.emit.name = "new_audio" =>
                    w.emit.data["audio"] = PyStrVal(Wrapped(d["audio"].val, m))
                /\ (e \notin DOMAIN audio_headers /\ e \in DOMAIN w.headers) =>
                    w.headers[e]["audio"] = PyStrVal(Wrapped(d["audio"].val, m))

\* a raw payload with a declared mime type is cached wrapped, and a payload
\* that is a data URI already is relayed as it came
C22_Witness ==
    /\ "7" \in DOMAIN audio_headers
    /\ audio_headers["7"]["audio"] = PyStrVal("data:audio/mpeg;base64,BBBB")
    /\ handle_stream_audio(World, "A",
           [event_id |-> PyIntVal("7"),
            audio |-> PyStrVal("data:audio/webm;base64,CCCC")]).emit.data["audio"]
       = PyStrVal("data:audio/webm;base64,CCCC")

\* C23: stream_frame, send_reaction and the diagnostic query leave the
\* counters, the header cache, the rooms and the is_live flags unchanged.
C23_RelaysAndQueryStateless ==
    /\ ForAllOutcomes(LAMBDA op, c, d, w :
        op \in {"stream_frame", "send_reaction"} => SameState(w))
    /\ \A e \in EventKeys : SameState(debug_rooms_state(World, e))

\* a live event with counters, a header and members: a frame and a reaction
\* are delivered and the query reports the counters
C23_Witness ==
    /\ is_live[7]
    /\ "7" \in DOMAIN audio_headers
    /\ debug_rooms(World, "7").audio_stats # EmptyDict
    /\ \E c \in Conns :
        /\ handle_stream_frame(World, c, FrameMsg("7")).emit.to # {}
        /\ handle_reaction(World, c, ReactionMsg("7")).emit.to # {}

\* C24: an event with a header has counters with chunks_sent >= 1, the
\* header holds the normalized payload of the chunk that brought chunks_sent
\* to 1, and a later chunk does not overwrite it.
C24_HeaderIsFirstChunk ==
    \A e \in EventKeys :
        e \in DOMAIN audio_headers =>
            /\ e \in DOMAIN audio_stats
            /\ "chunks_sent" \in DOMAIN audio_stats[e]
            /\ audio_stats[e]["chunks_sent"] >= 1
            /\ audio_headers[e]["audio"].val = tally[e].first
            /\ \A c \in Conns, d \in AudioMsgs({e}) :
                LET w == handle_stream_audio(World, c, d) IN
                    e \in DOMAIN w.headers /\ w.headers[e] = audio_headers[e]

\* two chunks were counted and the header is the first of them
C24_Witness ==
    /\ "7" \in DOMAIN audio_headers
    /\ audio_stats["7"]["chunks_sent"] = 2
    /\ tally["7"].n = 2
    /\ audio_headers["7"]["audio"].val = tally["7"].first
    /\ handle_stream_audio(World, "B", ChunkMsg("7")).ret = RetSuccess

\* C25: when the two stream_audio handlers begun on an event without
\* counters and header have both returned, the header cache of the event
\* holds the normalized payload of one of their chunks.
C25_RacingChunksCacheHeader ==
    \A e \in EventKeys :
        (InFlight(e) = {} /\ batch[e] = 2) =>
            /\ e \in DOMAIN audio_headers
            /\ audio_headers[e]["audio"].val \in
                   {Wrapped("AAAA", "audio/webm"), Wrapped("BBBB", "audio/webm")}

\* the entry of key e is the same in both dictionaries
SameEntry(d1, d2, e) ==
    /\ (e \in DOMAIN d1) <=> (e \in DOMAIN d2)
    /\ e \in DOMAIN d1 => d1[e] = d2[e]

\* C26: an operation addressed to event E leaves the counters, the header
\* and the is_live flag of every other event unchanged and delivers nothing
\* to a connection that is in another room and not in room E.
C26_OtherEventsUntouched ==
    ForAllOutcomes(LAMBDA op, c, d, w :
        KeyOf(d) # "" =>
            \A e \in EventKeys \ {KeyOf(d)} :
                /\ SameEntry(w.stats, audio_stats, e)
                /\ SameEntry(w.headers, audio_headers, e)
                /\ SameEntry(w.live, is_live, PyInt(e))
                /\ \A x \in w.rooms[e] \ w.rooms[KeyOf(d)] : x \notin w.emit.to)

\* both events have counters, event 7 is live and has a header, A is in
\* room 8 only: a stop of event 8 and a chunk for event 8 leave event 7 alone
C26_Witness ==
    /\ "7" \in DOMAIN audio_headers
    /\ "8" \in DOMAIN audio_stats
    /\ is_live[7]
    /\ "A" \in rooms["8"] \ rooms["7"]
    /\ "8" \notin DOMAIN handle_stop_stream(World, "B", IdMsg("8")).stats
    /\ handle_stream_audio(World, "B", ChunkMsg("8")).emit.to = {"A"}
    /\ handle_start_stream(World, "B", IdMsg("7")).emit.name = "stream_started"

\* C27: a valid stream_audio chunk for an event that is not live is counted,
\* cached as header when it is chunk 1, relayed to the room, acknowledged
\* with success, and leaves the is_live flags unchanged.
C27_RelayWithoutLive ==
    \A c \in Conns, d \in AudioMsgs(EventKeys) :
        (ValidChunk(d) /\ ~FlaggedLive(KeyOf(d))) =>
            LET w == handle_stream_audio(World, c, d)
                e == KeyOf(d)
            IN  /\ w.ret = RetSuccess
                /\ Counted(w.stats, e) = Counted(audio_stats, e) + 1
                /\ Counted(w.stats, e) = 1 =>
                       /\ e \in DOMAIN w.headers
                       /\ w.headers[e]["audio"] = NormalizedOf(d)
                /\ w.emit.name = "new_audio"
                /\ w.emit.to = rooms[e] \ {c}
                /\ w.live = is_live

====
